---- MODULE Spec2Model ----
(***************************************************************************)
(* Server-side secure channel layer (lib/server/ServerSecureChannelLayer). *)
(* One channel object, its timers, its transport and the callbacks queued  *)
(* on the single-threaded event loop.  Every handler of the source is one  *)
(* atomic action; the handler's body is a function from the channel state  *)
(* (a record of the variables below) to the state it leaves behind.        *)
(***************************************************************************)
EXTENDS Integers, Sequences, FiniteSets, TLC

VARIABLES
  transport,             \* self.transport: "undefined" | "initializing" | "failed" | "ready" | "disconnecting" | "closed"
  socketClosed,          \* the transport has emitted "socket_closed"
  disconnects,           \* callbacks of transport.disconnect() calls not yet completed (FIFO)
  closeCalls,            \* close() calls caused from outside the handshake (bounded input)
  timeoutId,             \* self.timeoutId: "zero" | "null" | "timer"
  openTimer,             \* the initial-OPN setTimeout is pending in the event loop
  securityTokenTimeout,  \* self._securityTokenTimeout: 0 (null/undefined) or the token id its timer was armed for
  watchdogs,             \* token watchdog timers pending in the event loop (by token id)
  lastTokenId,           \* self.lastTokenId
  revisedLifeTime,       \* self.revisedLifeTime (0 before the first request)
  securityToken,         \* self.securityToken
  securityMode,          \* self.securityMode
  defaultSecureTokenLifetime, \* self.defaultSecureTokenLifetime
  clientSecurityHeader,  \* self.clientSecurityHeader: security header of the first decoded message
  abort_has_been_called, \* self._abort_has_been_called
  listener,              \* messageBuilder "message" listener: "none" | "initial" | "common"
  certPending,           \* first OPN waiting for extractPublicKeyFromCertificate
  immediates,            \* setImmediate queue: completion callbacks of send_response
  pendingRequests,       \* requests surfaced by `message`, not yet answered by the upper layer
  abortCount,            \* number of `abort` events emitted
  initCallbacks,         \* results the init callback was invoked with, in order
  lastResponse,          \* the response most recently handed to the chunker
  installed,             \* tokenId of every security token installed, in order
  requestedLifetime,     \* requestedLifetime of the request handled last
  firedWatchdogs,        \* watchdog firings: token the timer was armed for, current token at that time
  timeoutFired,          \* the initial-OPN timer callback has run
  timeoutAfterMessage,   \* the initial-OPN timer callback ran after a first message was decoded
  firstMessageSeen,      \* the message builder has emitted its first message
  messageEvents,         \* `message` events emitted
  nonGoodOpnSent,        \* a response to an OpenSecureChannelRequest was sent with serviceResult # Good
  closeCallbacks,        \* close() callbacks invoked: which one, and whether `abort` had been emitted by then
  serverNonce,           \* length of self.serverNonce, 0 while it is null
  derivedKeys,           \* self.derivedKeys: whether computed, and from nonces of which lengths
  thrown,                \* assertions that have failed (the handler stopped there)
  clientNonce,           \* length of self.clientNonce (NullNonce while it is undefined or null)
  clientCertificate,     \* self.clientCertificate: sender certificate of the request handled last
  wire,                  \* the response in progress: chunks written to the transport and `transaction_done` events, in order
  last_channel_id,       \* module-level counter of getNextChannelId
  secureChannelIds,      \* self.secureChannelId of every channel constructed in the process, this one first
  validity,              \* the certificate _check_certificate_validity was last applied to, and the status it returned
  receiverPublicKey,     \* self.receiverPublicKey: the certificate the key was extracted from, NoCertificate while null
  receiverPublicKeyLength \* self.receiverPublicKeyLength

vars == << transport, socketClosed, disconnects, closeCalls, timeoutId, openTimer,
           securityTokenTimeout, watchdogs, lastTokenId, revisedLifeTime, securityToken,
           securityMode, defaultSecureTokenLifetime, clientSecurityHeader,
           abort_has_been_called, listener, certPending, immediates, pendingRequests,
           abortCount, initCallbacks, lastResponse, installed, requestedLifetime, firedWatchdogs,
           timeoutFired, timeoutAfterMessage, firstMessageSeen, messageEvents, nonGoodOpnSent,
           closeCallbacks,
           serverNonce,
           derivedKeys,
           thrown,
           clientNonce,
           clientCertificate,
           wire,
           last_channel_id,
           secureChannelIds,
           validity,
           receiverPublicKey,
           receiverPublicKeyLength >>

(***************************************************************************)
(* Bounds of the model.                                                    *)
(***************************************************************************)
MaxTokens == 2              \* OpenSecureChannelRequests handled per behaviour
MaxRequests == 1            \* `message` events per behaviour
MaxCloseCalls == 1          \* close() calls from CLO messages, builder errors and the endpoint
MaxChannels == 3            \* channels constructed in the process

(***************************************************************************)
(* Program constants.                                                      *)
(***************************************************************************)
DefaultSecureTokenLifetime == 600000

\* options.defaultSecureTokenLifetime: 0 stands for an absent (falsy) option
LifetimeOptions == {0, 2}

\* getNextChannelId returning the counter without advancing it
getNextChannelId_NoIncrement(counter) ==
  [last_channel_id |-> counter, id |-> counter]

\* getNextChannelId on the module-level counter: the counter it leaves, the id it returns
getNextChannelId(counter) ==
  [last_channel_id |-> counter + 1, id |-> counter + 1]

\* constructor: self.defaultSecureTokenLifetime = options.defaultSecureTokenLifetime || 600000
constructor_defaultSecureTokenLifetime(option) ==
  IF option = 0 THEN DefaultSecureTokenLifetime ELSE option

\* requestedLifetime is a UInt32 of the decoded OpenSecureChannelRequest
\* (0, a value below every default, a value above every default)
RequestedLifetimes == {0, 1, DefaultSecureTokenLifetime + 1}
RequestHandles == {0, 1}
RequestIds == {1}
\* requestId of the sequence header of a message: a UInt32, 0 included
SequenceRequestIds == {0, 1}

PolicyUris == {"None", "Basic128Rsa15", "Other"}
SecurityModes == {"NONE", "SIGN", "SIGNANDENCRYPT"}
\* request.clientNonce: a ByteString, null (encoded with length -1) or of some length
NullNonce == -1
NonceLengths == {NullNonce, 0, 16}
\* receiverCertificateThumbprint of the asymmetric header: the digest of the
\* server certificate, another digest, or none (null)
Thumbprints == {"match", "mismatch", "absent"}

\* the validity window of a sender certificate against the server clock
Now == 2
\* present: the value is a Buffer (truthy); zeroLength: a Buffer of no byte
NoCertificate == [present |-> FALSE, zeroLength |-> FALSE, notBefore |-> 0, notAfter |-> 0]
ZeroLengthCertificate == [present |-> TRUE, zeroLength |-> TRUE, notBefore |-> 0, notAfter |-> 0]
Certificates ==
  {NoCertificate} \cup
  { [present |-> TRUE, zeroLength |-> FALSE, notBefore |-> 1, notAfter |-> 3],     \* valid
    [present |-> TRUE, zeroLength |-> FALSE, notBefore |-> 0, notAfter |-> 2] }    \* expires exactly now
\* senderCertificate of an asymmetric header: null, a certificate, or no byte at all
SenderCertificates == Certificates \cup {ZeroLengthCertificate}
\* notBefore and notAfter of the certificates the validity check is applied to
CertificateTimes == 0 .. 10
NoValidity == [certificate |-> NoCertificate, status |-> "none"]
NoHeader == [securityPolicyUri |-> "unset", thumbprint |-> "absent", senderCertificate |-> NoCertificate]
\* self.clientSecurityHeader keeps the fields later requests read
NoClientHeader == [securityPolicyUri |-> "unset", thumbprint |-> "absent"]

\* self.derivedKeys before any key derivation (undefined)
NoDerivedKeys == [computed |-> FALSE, serverNonce |-> 0, clientNonce |-> 0]

NoCallback == [k |-> "none", nonGood |-> FALSE, cb |-> "none"]
NoResponse == [msgType |-> "none", kind |-> "none", serviceResult |-> "none",
               requestHandle |-> 0,
               request |-> [schema |-> "none", requestHandle |-> 0, securityMode |-> "NONE"],
               security |-> "none", chunks |-> 0]

\* decoded OpenSecureChannelRequest with its asymmetric security header
OpnMessages ==
  [ msgType : {"OPN"}, schema : {"OpenSecureChannelRequest"},
    requestId : SequenceRequestIds, requestHandle : RequestHandles, tokenId : {0},
    securityPolicyUri : PolicyUris, securityMode : SecurityModes,
    clientNonceLength : NonceLengths, requestedLifetime : RequestedLifetimes,
    requestType : {"ISSUE", "RENEW"}, thumbprint : Thumbprints,
    senderCertificate : SenderCertificates ]

\* any other decoded message: a service request or a CloseSecureChannelRequest,
\* in a chunk of any message type
OtherMessages(tokens) ==
  [ msgType : {"MSG", "CLO", "OPN"}, schema : {"CloseSecureChannelRequest", "Other"},
    requestId : SequenceRequestIds, requestHandle : RequestHandles, tokenId : tokens,
    securityPolicyUri : {"None"}, securityMode : {"NONE"},
    clientNonceLength : {0}, requestedLifetime : {0},
    requestType : {"ISSUE"}, thumbprint : {"absent"}, senderCertificate : {NoCertificate} ]

\* open requests as a conforming client encodes them: a requestId above 0, a
\* nonce that is a byte string, a certificate that is absent or has its bytes
WellFormedOpnMessages ==
  { m \in OpnMessages : /\ m.requestId \in RequestIds
                        /\ m.clientNonceLength # NullNonce
                        /\ ~m.senderCertificate.zeroLength }

\* the messages of the lifecycle specification: one request of each outcome
\* (an open without certificate, a signed open with any nonce, thumbprint and
\* certificate, an unknown policy, a first message that is no open request)
LifecycleMessages ==
  { m \in WellFormedOpnMessages :
      /\ m.requestHandle = 1 /\ m.requestedLifetime = 0
      /\ \/ m.securityPolicyUri = "Basic128Rsa15" /\ m.securityMode = "SIGN"
            /\ m.senderCertificate.present
         \/ m.securityPolicyUri # "Basic128Rsa15" /\ m.securityMode = "NONE"
            /\ m.clientNonceLength = 0 /\ ~m.senderCertificate.present
            /\ m.thumbprint = "match" }
  \cup { m \in OtherMessages({0, 1, 2}) : m.msgType = "MSG" /\ m.schema = "Other" /\ m.requestHandle = 1 }

\* the messages of the handshake specification: every requested lifetime,
\* request handle and request type, under a header whose mode fits its policy
HandshakeMessages ==
  { m \in WellFormedOpnMessages :
      /\ m.thumbprint # "absent"
      /\ m.securityMode \in {"NONE", "SIGN"}
      /\ (m.securityMode = "NONE") = (m.securityPolicyUri # "Basic128Rsa15")
      /\ m.securityMode = "NONE" => m.clientNonceLength = 0 }

\* the messages of the security specification: every policy, mode, nonce,
\* thumbprint and certificate
SecurityMessages ==
  { m \in WellFormedOpnMessages : m.requestHandle = 1 /\ m.requestedLifetime = 0 }

\* the messages of the renewal specification: the same, and those a
\* conforming client does not send (requestId 0, a null nonce, a certificate
\* of no byte)
AnyOpnMessages ==
  { m \in OpnMessages : m.requestHandle = 1 /\ m.requestedLifetime = 0 }

\* the channel state as one record, so that a handler is a function on it
cur ==
  [ transport |-> transport, socketClosed |-> socketClosed, disconnects |-> disconnects,
    closeCalls |-> closeCalls, timeoutId |-> timeoutId, openTimer |-> openTimer,
    securityTokenTimeout |-> securityTokenTimeout, watchdogs |-> watchdogs,
    lastTokenId |-> lastTokenId, revisedLifeTime |-> revisedLifeTime,
    securityToken |-> securityToken, securityMode |-> securityMode,
    defaultSecureTokenLifetime |-> defaultSecureTokenLifetime,
    clientSecurityHeader |-> clientSecurityHeader,
    abort_has_been_called |-> abort_has_been_called, listener |-> listener,
    certPending |-> certPending, immediates |-> immediates,
    pendingRequests |-> pendingRequests, abortCount |-> abortCount,
    initCallbacks |-> initCallbacks, lastResponse |-> lastResponse, installed |-> installed,
    requestedLifetime |-> requestedLifetime,
    firedWatchdogs |-> firedWatchdogs, timeoutFired |-> timeoutFired,
    timeoutAfterMessage |-> timeoutAfterMessage,
    firstMessageSeen |-> firstMessageSeen, messageEvents |-> messageEvents,
    nonGoodOpnSent |-> nonGoodOpnSent,
    closeCallbacks |-> closeCallbacks,
    serverNonce |-> serverNonce,
    derivedKeys |-> derivedKeys,
    thrown |-> thrown,
    clientNonce |-> clientNonce,
    clientCertificate |-> clientCertificate,
    wire |-> wire,
    last_channel_id |-> last_channel_id,
    secureChannelIds |-> secureChannelIds,
    validity |-> validity,
    receiverPublicKey |-> receiverPublicKey,
    receiverPublicKeyLength |-> receiverPublicKeyLength ]

\* the state a handler returns becomes the next state
Commit(s) ==
  \E v \in {s} :
    /\ transport' = v.transport
    /\ socketClosed' = v.socketClosed
    /\ disconnects' = v.disconnects
    /\ closeCalls' = v.closeCalls
    /\ timeoutId' = v.timeoutId
    /\ openTimer' = v.openTimer
    /\ securityTokenTimeout' = v.securityTokenTimeout
    /\ watchdogs' = v.watchdogs
    /\ lastTokenId' = v.lastTokenId
    /\ revisedLifeTime' = v.revisedLifeTime
    /\ securityToken' = v.securityToken
    /\ securityMode' = v.securityMode
    /\ defaultSecureTokenLifetime' = v.defaultSecureTokenLifetime
    /\ clientSecurityHeader' = v.clientSecurityHeader
    /\ abort_has_been_called' = v.abort_has_been_called
    /\ listener' = v.listener
    /\ certPending' = v.certPending
    /\ immediates' = v.immediates
    /\ pendingRequests' = v.pendingRequests
    /\ abortCount' = v.abortCount
    /\ initCallbacks' = v.initCallbacks
    /\ lastResponse' = v.lastResponse
    /\ installed' = v.installed
    /\ requestedLifetime' = v.requestedLifetime
    /\ firedWatchdogs' = v.firedWatchdogs
    /\ timeoutFired' = v.timeoutFired
    /\ timeoutAfterMessage' = v.timeoutAfterMessage
    /\ firstMessageSeen' = v.firstMessageSeen
    /\ messageEvents' = v.messageEvents
    /\ nonGoodOpnSent' = v.nonGoodOpnSent
    /\ closeCallbacks' = v.closeCallbacks
    /\ serverNonce' = v.serverNonce
    /\ derivedKeys' = v.derivedKeys
    /\ thrown' = v.thrown
    /\ clientNonce' = v.clientNonce
    /\ clientCertificate' = v.clientCertificate
    /\ wire' = v.wire
    /\ last_channel_id' = v.last_channel_id
    /\ secureChannelIds' = v.secureChannelIds
    /\ validity' = v.validity
    /\ receiverPublicKey' = v.receiverPublicKey
    /\ receiverPublicKeyLength' = v.receiverPublicKeyLength

(***************************************************************************)
(* Timers.                                                                 *)
(***************************************************************************)
\* _stop_security_token_watch_dog dropping the handle without clearTimeout
_stop_security_token_watch_dog_NoClear(s) ==
  [s EXCEPT !.securityTokenTimeout = 0]

_stop_security_token_watch_dog(s) ==
  IF s.securityTokenTimeout # 0
  THEN [s EXCEPT !.watchdogs = @ \ {s.securityTokenTimeout}, !.securityTokenTimeout = 0]
  ELSE s

\* setTimeout(..., revisedLifeTime * 120 / 100): the timer is pending from now on
_start_security_token_watch_dog(s) ==
  [s EXCEPT !.watchdogs = @ \cup {s.securityToken.tokenId},
            !.securityTokenTimeout = s.securityToken.tokenId]

_stop_open_channel_watch_dog(s) ==
  IF s.timeoutId = "timer"
  THEN [s EXCEPT !.openTimer = FALSE, !.timeoutId = "null"]
  ELSE s

\* the cancel dropping the handle without clearTimeout
_cancel_wait_for_open_secure_channel_request_timeout_NoClear(s) ==
  [s EXCEPT !.timeoutId = "null"]

\* clearTimeout(self.timeoutId) clears the timer only if the handle still names it
_cancel_wait_for_open_secure_channel_request_timeout(s) ==
  [s EXCEPT !.openTimer = IF s.timeoutId = "timer" THEN FALSE ELSE @, !.timeoutId = "null"]

_install_wait_for_open_secure_channel_request_timeout(s) ==
  [s EXCEPT !.timeoutId = "timer", !.openTimer = TRUE]

_cleanup_pending_timers(s) ==
  _stop_open_channel_watch_dog(_stop_security_token_watch_dog(s))

(***************************************************************************)
(* Lifecycle: _abort and close.                                            *)
(***************************************************************************)
\* _abort without the guard on _abort_has_been_called
_abort_Unguarded(s) ==
  LET s1 == _cleanup_pending_timers([s EXCEPT !.abort_has_been_called = TRUE])
  IN  [s1 EXCEPT !.abortCount = @ + 1]

_abort(s) ==
  IF s.abort_has_been_called
  THEN s
  ELSE LET s1 == _cleanup_pending_timers([s EXCEPT !.abort_has_been_called = TRUE])
       IN  [s1 EXCEPT !.abortCount = @ + 1]

\* transport.disconnect(cb): the transport starts closing and calls cb once done
transport_disconnect(s, cb) ==
  [s EXCEPT !.disconnects = Append(@, cb),
            !.transport = IF @ = "ready" THEN "disconnecting" ELSE @]

close(s, cb) == transport_disconnect(s, cb)

(***************************************************************************)
(* Token manager.                                                          *)
(***************************************************************************)
Min(a, b) == IF a < b THEN a ELSE b

\* _set_lifetime without the cap at the default
_set_lifetime_Uncapped(s, requested) ==
  [s EXCEPT !.revisedLifeTime =
              IF requested = 0 THEN s.defaultSecureTokenLifetime ELSE requested,
            !.requestedLifetime = requested]

\* _set_lifetime without the case of a requested lifetime of 0
_set_lifetime_ZeroKept(s, requested) ==
  [s EXCEPT !.revisedLifeTime = Min(s.defaultSecureTokenLifetime, requested),
            !.requestedLifetime = requested]

_set_lifetime(s, requested) ==
  [s EXCEPT !.revisedLifeTime =
              IF requested = 0
              THEN s.defaultSecureTokenLifetime
              ELSE Min(s.defaultSecureTokenLifetime, requested),
            !.requestedLifetime = requested]

\* _add_new_security_token reusing lastTokenId
_add_new_security_token_SameId(s) ==
  LET s1 == _stop_security_token_watch_dog(s)
      tk == [tokenId |-> s1.lastTokenId, revisedLifeTime |-> s1.revisedLifeTime]
      s3 == [s1 EXCEPT !.securityToken = tk, !.installed = Append(@, tk.tokenId)]
  IN  _start_security_token_watch_dog(s3)

_add_new_security_token(s) ==
  LET s1 == _stop_security_token_watch_dog(s)
      s2 == [s1 EXCEPT !.lastTokenId = @ + 1]
      tk == [tokenId |-> s2.lastTokenId, revisedLifeTime |-> s2.revisedLifeTime]
      s3 == [s2 EXCEPT !.securityToken = tk, !.installed = Append(@, tk.tokenId)]
  IN  _start_security_token_watch_dog(s3)

_prepare_security_token(s, request) ==
  LET s1 == IF request.requestType = "RENEW" THEN _stop_security_token_watch_dog(s) ELSE s
  IN  _add_new_security_token(s1)

(***************************************************************************)
(* Certificate and policy checks.                                          *)
(***************************************************************************)
\* the check accepting every thumbprint
_check_receiverCertificateThumbprint_AcceptsAll(header) == TRUE

_check_receiverCertificateThumbprint(header) ==
  IF header.thumbprint # "absent" THEN header.thumbprint = "match" ELSE TRUE

\* crypto_utils.exploreCertificate(certificate): the fields read from the DER
\* structure; a buffer of no byte holds none and the read fails (parsed = FALSE)
exploreCertificate(certificate) ==
  [parsed |-> ~certificate.zeroLength,
   notBefore |-> certificate.notBefore, notAfter |-> certificate.notAfter]

\* the check without the validity window
_check_certificate_validity_NoWindow(certificate) ==
  IF ~certificate.present THEN "BadSecurityChecksFailed"
  ELSE IF ~exploreCertificate(certificate).parsed THEN "throws"
  ELSE "Good"

\* the check accepting a certificate at the instant it expires
_check_certificate_validity_ExpiryExclusive(certificate) ==
  IF ~certificate.present THEN "BadSecurityChecksFailed"
  ELSE LET cert == exploreCertificate(certificate)
       IN  IF ~cert.parsed THEN "throws"
           ELSE IF cert.notBefore > Now THEN "BadCertificateTimeInvalid"
           ELSE IF cert.notAfter < Now THEN "BadCertificateTimeInvalid"
           ELSE "Good"

\* "throws": the exception of exploreCertificate leaves the function
_check_certificate_validity(certificate) ==
  IF ~certificate.present THEN "BadSecurityChecksFailed"
  ELSE LET cert == exploreCertificate(certificate)
       IN  IF ~cert.parsed THEN "throws"
           ELSE IF cert.notBefore > Now THEN "BadCertificateTimeInvalid"
           ELSE IF cert.notAfter <= Now THEN "BadCertificateTimeInvalid"
           ELSE "Good"

isValidSecurityPolicy(uri) ==
  IF uri \in {"None", "Basic128Rsa15", "Basic256"} THEN "Good" ELSE "BadSecurityPolicyRejected"

\* cryptoFactory.compute_derived_keys(serverNonce, clientNonce)
compute_derived_keys(server_nonce, client_nonce) ==
  [computed |-> TRUE, serverNonce |-> server_nonce, clientNonce |-> client_nonce]

\* cryptoFactory.symmetricKeyLength of the policy the message builder selected
symmetricKeyLength(uri) == IF uri = "Basic128Rsa15" THEN 16 ELSE 32

\* messageBuilder.cryptoFactory is set for every policy but None
cryptoFactory(uri) == uri # "None"

(***************************************************************************)
(* Send path.                                                              *)
(***************************************************************************)
\* chunks: the number of chunks the encoded response fills at the chunk size
\* of the transport (a fault and an OPN response fit in one)
ServiceFault(statusCode) ==
  [kind |-> "ServiceFault", serviceResult |-> statusCode, requestHandle |-> 0, chunks |-> 1]

OpenSecureChannelResponse(serviceResult) ==
  [kind |-> "OpenSecureChannelResponse", serviceResult |-> serviceResult, requestHandle |-> 0,
   chunks |-> 1]

\* chunks a response of the upper layer fills
ChunkCounts == {1, 2}

\* _send_chunk emitting `transaction_done` for every chunk it is handed
_send_chunk_DoneOnEveryChunk(s, callback, messageChunk) ==
  IF messageChunk # 0
  THEN [s EXCEPT !.wire = @ \o << [k |-> "write", chunk |-> messageChunk],
                                  [k |-> "transaction_done", chunk |-> 0] >>]
  ELSE LET s1 == IF callback # NoCallback THEN [s EXCEPT !.immediates = Append(@, callback)] ELSE s
       IN  [s1 EXCEPT !.wire = Append(@, [k |-> "transaction_done", chunk |-> 0])]

\* _send_chunk(callback, messageChunk): messageChunk is the number of the
\* chunk within its response, 0 for the null that ends the response
_send_chunk(s, callback, messageChunk) ==
  IF messageChunk # 0
  THEN [s EXCEPT !.wire = Append(@, [k |-> "write", chunk |-> messageChunk])]
  ELSE LET s1 == IF callback # NoCallback THEN [s EXCEPT !.immediates = Append(@, callback)] ELSE s
       IN  [s1 EXCEPT !.wire = Append(@, [k |-> "transaction_done", chunk |-> 0])]

\* messageChunker.chunkSecureMessage: the callback receives the chunks
\* from..chunks in order, and null once after the last one
RECURSIVE chunkSecureMessage(_, _, _, _)
chunkSecureMessage(s, from, chunks, callback) ==
  IF from > chunks
  THEN _send_chunk(s, callback, 0)
  ELSE chunkSecureMessage(_send_chunk(s, callback, from), from + 1, chunks, callback)

\* the policy the message builder decodes the channel's messages under
\* (messageBuilder.cryptoFactory follows the asymmetric header of the open request)
BuilderPolicy(s) == s.clientSecurityHeader.securityPolicyUri

\* "asymmetric": signing and encryption options of an OPN chunk; "none": the
\* empty options; "throws": assert(cryptoFactory) fails
_get_security_options_for_OPN(s) ==
  IF s.securityMode \in {"SIGN", "SIGNANDENCRYPT"}
  THEN IF cryptoFactory(BuilderPolicy(s)) THEN "asymmetric" ELSE "throws"
  ELSE "none"

\* "symmetric": options built from derivedKeys.derivedServerKeys; "throws":
\* self.derivedKeys is still undefined
_get_security_options_for_MSG(s) ==
  IF s.securityMode = "NONE" THEN "none"
  ELSE IF ~cryptoFactory(BuilderPolicy(s)) THEN "none"
  ELSE IF s.derivedKeys.computed THEN "symmetric" ELSE "throws"

\* the same without the copy of the request handle
send_response_KeepsHandle(s, msgType, response, message, callback) ==
  LET sent == [msgType |-> msgType, kind |-> response.kind,
               serviceResult |-> response.serviceResult,
               requestHandle |-> response.requestHandle,
               request |-> [schema |-> message.schema,
                            requestHandle |-> message.requestHandle,
                            securityMode |-> message.securityMode],
               security |-> IF msgType = "OPN" THEN _get_security_options_for_OPN(s)
                            ELSE _get_security_options_for_MSG(s),
               chunks |-> response.chunks]
      s1 == [s EXCEPT !.lastResponse = sent,
                      !.nonGoodOpnSent = @ \/ (message.schema = "OpenSecureChannelRequest"
                                               /\ response.serviceResult # "Good"),
                      !.wire = << >>]
  IN  chunkSecureMessage(s1, 1, response.chunks, callback)

send_response(s, msgType, response, message, callback) ==
  LET security_options == IF msgType = "OPN" THEN _get_security_options_for_OPN(s)
                          ELSE _get_security_options_for_MSG(s)
      copied == [response EXCEPT !.requestHandle = message.requestHandle]
      sent == [msgType |-> msgType, kind |-> copied.kind,
               serviceResult |-> copied.serviceResult,
               requestHandle |-> copied.requestHandle,
               request |-> [schema |-> message.schema,
                            requestHandle |-> message.requestHandle,
                            securityMode |-> message.securityMode],
               security |-> security_options, chunks |-> copied.chunks]
      s1 == [s EXCEPT !.lastResponse = sent,
                      !.nonGoodOpnSent = @ \/ (message.schema = "OpenSecureChannelRequest"
                                               /\ response.serviceResult # "Good"),
                      !.wire = << >>]
  IN  IF ~(message.requestId > 0)
      THEN [s EXCEPT !.thrown = @ \cup {"send_response"}]
      ELSE IF security_options = "throws"
      THEN [s EXCEPT !.thrown = @ \cup {IF msgType = "OPN" THEN "_get_security_options_for_OPN"
                                        ELSE "_get_security_options_for_MSG"}]
      ELSE chunkSecureMessage(s1, 1, response.chunks, callback)

send_error_and_abort(s, statusCode, message, cb) ==
  \* assert(message.requestId && message.requestId > 0)
  IF ~(message.requestId > 0)
  THEN [s EXCEPT !.thrown = @ \cup {"send_error_and_abort"}]
  ELSE send_response(s, "MSG", ServiceFault(statusCode), message,
                     [k |-> "faultSent", nonGood |-> TRUE, cb |-> cb])

_send_error(s, statusCode, message) ==
  send_error_and_abort([s EXCEPT !.securityMode = "NONE"], statusCode, message, "initError")

(***************************************************************************)
(* Handshake.                                                              *)
(***************************************************************************)
\* FALSE when the assertion of _prepare_security_header fails: a request of
\* mode None whose message carries a security header of another policy
_prepare_security_header(request, header) ==
  request.securityMode = "NONE" => (header = NoHeader \/ header.securityPolicyUri = "None")

\* header: the asymmetric header attached to the message (initial OPN), or
\* NoHeader for a renewal, whose message object has no securityHeader field
_handle_OpenSecureChannelRequest(s, message, header, cb) ==
  LET \* lines 819-823: client nonce, revised lifetime, new token
      prepared ==
        _prepare_security_token(
          _set_lifetime([s EXCEPT !.clientNonce = message.clientNonceLength],
                        message.requestedLifetime),
          message)
      \* lines 826-914, on the channel s2 that holds the new token
      respond(s2) ==
        LET policy == message.securityPolicyUri
            serviceResult ==
              IF cryptoFactory(policy) /\ s2.clientNonce # symmetricKeyLength(policy)
              THEN "BadSecurityModeRejected" ELSE "Good"
            \* line 836 reads self.clientNonce.length: a TypeError on a null
            \* nonce, after serverNonce was assigned
            nonceRead == [s2 EXCEPT !.serverNonce = symmetricKeyLength(policy)]
            \* serverNonce and derivedKeys are assigned whenever there is a cryptoFactory
            s3 == IF cryptoFactory(policy)
                  THEN [s2 EXCEPT !.serverNonce = symmetricKeyLength(policy),
                                  !.derivedKeys = compute_derived_keys(symmetricKeyLength(policy),
                                                                       s2.clientNonce)]
                  ELSE s2
            \* self.clientCertificate = message.securityHeader ? senderCertificate : null
            s4 == [s3 EXCEPT !.clientCertificate = header.senderCertificate]
            revised ==
              IF /\ s2.securityMode # "NONE"
                 /\ ~_check_receiverCertificateThumbprint(s2.clientSecurityHeader)
              THEN "BadCertificateInvalid" ELSE serviceResult
            certificate_status == _check_certificate_validity(header.senderCertificate)
            response ==
              IF header.senderCertificate.present /\ certificate_status # "Good"
              THEN ServiceFault(certificate_status)
              ELSE OpenSecureChannelResponse(revised)
        IN  IF cryptoFactory(policy) /\ s2.clientNonce = NullNonce
            THEN [nonceRead EXCEPT !.thrown = @ \cup {"_handle_OpenSecureChannelRequest"}]
            ELSE IF ~_prepare_security_header(message, header)
            THEN [s3 EXCEPT !.thrown = @ \cup {"_prepare_security_header"}]
            ELSE IF header.senderCertificate.present /\ certificate_status = "throws"
            THEN [s4 EXCEPT !.thrown = @ \cup {"_check_certificate_validity"}]
            ELSE send_response(s4, "OPN", response, message,
                               [k |-> "opnSent", nonGood |-> response.serviceResult # "Good",
                                cb |-> cb])
  IN  \* assert(requestId && requestId > 0), before anything is assigned
      IF ~(message.requestId > 0)
      THEN [s EXCEPT !.thrown = @ \cup {"_handle_OpenSecureChannelRequest"}]
      ELSE CHOOSE done \in {respond(s2) : s2 \in {prepared}} : TRUE

HeaderOf(message) ==
  [securityPolicyUri |-> message.securityPolicyUri, thumbprint |-> message.thumbprint,
   senderCertificate |-> message.senderCertificate]

\* crypto_utils.rsa_length(key): the length in bytes of a 1024-bit key
rsa_length(key) == IF key.present THEN 128 ELSE 0

\* a certificate of zero length is ignored (lines 496-500)
_process_certificates(s, message) ==
  LET s1 == [s EXCEPT !.receiverPublicKey = NoCertificate, !.receiverPublicKeyLength = 0]
  IN  IF message.senderCertificate.present /\ ~message.senderCertificate.zeroLength
      THEN [s1 EXCEPT !.certPending = Append(@, message)]
      ELSE _handle_OpenSecureChannelRequest(s1, message, HeaderOf(message), "init")

_on_initial_OpenSecureChannelRequest(s, message, has_endpoint) ==
  IF message.schema # "OpenSecureChannelRequest"
  THEN _send_error(s, "BadCommunicationError", message)
  ELSE IF isValidSecurityPolicy(message.securityPolicyUri) # "Good"
  THEN _send_error(s, isValidSecurityPolicy(message.securityPolicyUri), message)
  ELSE LET s1 == [s EXCEPT !.securityMode = message.securityMode]
       IN  IF ~has_endpoint
           THEN _send_error(s1, "BadSecurityPolicyRejected", message)
           ELSE _process_certificates([s1 EXCEPT !.listener = "common"], message)

_on_initial_open_secure_channel_request(s, message, has_endpoint) ==
  LET s1 == [_cancel_wait_for_open_secure_channel_request_timeout(s)
               EXCEPT !.firstMessageSeen = TRUE, !.listener = "none"]
      s2 == [s1 EXCEPT !.clientSecurityHeader = [securityPolicyUri |-> message.securityPolicyUri,
                                                 thumbprint |-> message.thumbprint]]
  IN  \* assert(requestId > 0)
      IF ~(message.requestId > 0)
      THEN [s1 EXCEPT !.thrown = @ \cup {"_on_initial_open_secure_channel_request"}]
      ELSE _on_initial_OpenSecureChannelRequest(s2, message, has_endpoint)

\* _on_common_message taking the security mode of a renewal request as the
\* initial handler does
_on_common_message_AdoptsMode(s, message) ==
  IF message.msgType = "CLO" /\ message.schema = "CloseSecureChannelRequest"
  THEN close(s, "none")
  ELSE IF message.msgType = "OPN" /\ message.schema = "OpenSecureChannelRequest"
  THEN _handle_OpenSecureChannelRequest([s EXCEPT !.securityMode = message.securityMode],
                                        message, NoHeader, "none")
  ELSE IF message.schema = "CloseSecureChannelRequest"
  THEN close(s, "none")
  ELSE [s EXCEPT !.pendingRequests = @ \cup {message},
                 !.messageEvents = Append(@, [msgType |-> message.msgType,
                                              schema |-> message.schema,
                                              requestId |-> message.requestId,
                                              tokenId |-> message.tokenId,
                                              watchdogFired |-> \E f \in s.firedWatchdogs :
                                                                   f.tokenId = message.tokenId])]

_on_common_message(s, message) ==
  IF message.msgType = "CLO" /\ message.schema = "CloseSecureChannelRequest"
  THEN close(s, "none")
  ELSE IF message.msgType = "OPN" /\ message.schema = "OpenSecureChannelRequest"
  THEN _handle_OpenSecureChannelRequest(s, message, NoHeader, "none")
  ELSE IF message.schema = "CloseSecureChannelRequest"
  THEN close(s, "none")
  ELSE [s EXCEPT !.pendingRequests = @ \cup {message},
                 !.messageEvents = Append(@, [msgType |-> message.msgType,
                                              schema |-> message.schema,
                                              requestId |-> message.requestId,
                                              tokenId |-> message.tokenId,
                                              watchdogFired |-> \E f \in s.firedWatchdogs :
                                                                   f.tokenId = message.tokenId])]

_wait_for_open_secure_channel_request(s) ==
  [_install_wait_for_open_secure_channel_request_timeout(s) EXCEPT !.listener = "initial"]

(***************************************************************************)
(* Collaborators outside the channel: message builder, endpoint registry.  *)
(***************************************************************************)
\* tokens the message builder accepts on inbound messages: the current one
\* and the one before it (0 while no token has been pushed)
BuilderTokens(s) ==
  IF s.lastTokenId = 0 THEN {0}
  ELSE {t \in {s.lastTokenId - 1, s.lastTokenId} : t >= 1}

\* endpoints: the channel has a parent (self.endpoints is self.parent);
\* endpoint_desc: the parent holds an endpoint for the (mode, policy) of the request
has_endpoint_for_security_mode_and_policy(endpoints, endpoint_desc) ==
  IF ~endpoints THEN TRUE ELSE endpoint_desc

\* a request of mode None is served with or without a parent; a request to
\* sign is served by a channel with a parent, which supplies the certificate
\* chain and the private key
EndpointAnswers(mode) ==
  {has_endpoint_for_security_mode_and_policy(endpoints, endpoint_desc) :
     endpoints \in IF mode = "NONE" THEN BOOLEAN ELSE {TRUE}, endpoint_desc \in BOOLEAN}

\* chunks reach the message builder until the socket is closed or destroyed
CanReceive == transport = "ready" /\ ~socketClosed

\* renewals are decoded under the policy the channel was opened with; these
\* ask for the mode the channel has and carry no certificate
RenewMessages ==
  {m \in OpnMessages : /\ m.securityPolicyUri = clientSecurityHeader.securityPolicyUri
                       /\ m.thumbprint = clientSecurityHeader.thumbprint
                       /\ m.senderCertificate = NoCertificate
                       /\ m.securityMode = securityMode}

(***************************************************************************)
(* Initial state: the channel as the constructor leaves it.                *)
(***************************************************************************)
Init ==
  /\ transport = "undefined"
  /\ socketClosed = FALSE
  /\ disconnects = << >>
  /\ closeCalls = 0
  /\ timeoutId = "zero"
  /\ openTimer = FALSE
  /\ securityTokenTimeout = 0
  /\ watchdogs = {}
  /\ lastTokenId = 0
  /\ revisedLifeTime = 0
  /\ securityToken = [tokenId |-> 0, revisedLifeTime |-> 0]
  /\ securityMode = "INVALID"
  /\ defaultSecureTokenLifetime \in {constructor_defaultSecureTokenLifetime(o) : o \in LifetimeOptions}
  /\ clientSecurityHeader = NoClientHeader
  /\ abort_has_been_called = FALSE
  /\ listener = "none"
  /\ certPending = << >>
  /\ immediates = << >>
  /\ pendingRequests = {}
  /\ abortCount = 0
  /\ initCallbacks = << >>
  /\ lastResponse = NoResponse
  /\ installed = << >>
  /\ requestedLifetime = 0
  /\ firedWatchdogs = {}
  /\ timeoutFired = FALSE
  /\ timeoutAfterMessage = FALSE
  /\ firstMessageSeen = FALSE
  /\ messageEvents = << >>
  /\ nonGoodOpnSent = FALSE
  /\ closeCallbacks = {}
  /\ serverNonce = 0
  /\ derivedKeys = NoDerivedKeys
  /\ thrown = {}
  /\ clientNonce = NullNonce
  /\ clientCertificate = NoCertificate
  /\ wire = << >>
  /\ last_channel_id = getNextChannelId(0).last_channel_id
  /\ secureChannelIds = << getNextChannelId(0).id >>
  /\ validity = NoValidity
  /\ receiverPublicKey = NoCertificate
  /\ receiverPublicKeyLength = 0

(***************************************************************************)
(* Actions: one per entry point, event handler or queued callback.         *)
(***************************************************************************)
\* init(socket, callback): the transport starts its own initialisation
init ==
  /\ transport = "undefined"
  /\ Commit([cur EXCEPT !.transport = "initializing"])

\* callback of transport.init
TransportInitDone ==
  /\ transport = "initializing"
  /\ \E err \in BOOLEAN :
       /\ socketClosed => err
       /\ IF err
          THEN Commit([cur EXCEPT !.transport = "failed",
                                  !.initCallbacks = Append(@, "transportError")])
          ELSE Commit(_wait_for_open_secure_channel_request([cur EXCEPT !.transport = "ready"]))

\* transport "socket_closed" listener
SocketClosed ==
  /\ transport # "undefined"
  /\ ~socketClosed
  /\ Commit(_abort([cur EXCEPT !.socketClosed = TRUE]))

\* the timeout closing the channel without handing the init callback to close
OpenSecureChannelTimeout_NoCallback ==
  /\ openTimer
  /\ Commit(close([cur EXCEPT !.openTimer = FALSE,
                              !.timeoutId = "null",
                              !.timeoutFired = TRUE,
                              !.timeoutAfterMessage = @ \/ firstMessageSeen],
                  "none"))

\* the timer armed by _install_wait_for_open_secure_channel_request_timeout fires
OpenSecureChannelTimeout ==
  /\ openTimer
  /\ Commit(close([cur EXCEPT !.openTimer = FALSE,
                              !.timeoutId = "null",
                              !.timeoutFired = TRUE,
                              !.timeoutAfterMessage = @ \/ firstMessageSeen],
                  "initTimeout"))

\* the timer armed by _start_security_token_watch_dog fires
SecurityTokenWatchdog ==
  \E t \in watchdogs :
    Commit([cur EXCEPT !.watchdogs = @ \ {t},
                       !.securityTokenTimeout = 0,
                       !.firedWatchdogs = @ \cup {[tokenId |-> t, current |-> securityToken.tokenId]}])

\* the transport has disconnected: the callback close() passed to it runs
DisconnectDone ==
  /\ disconnects # << >>
  /\ LET cb == Head(disconnects)
         s0 == _abort([cur EXCEPT !.disconnects = Tail(@), !.transport = "closed"])
         \* if (_.isFunction(callback)) callback(): runs after self._abort()
         s1 == IF cb = "none" THEN s0
               ELSE [s0 EXCEPT !.closeCallbacks =
                                 @ \cup {[cb |-> cb, abortEmitted |-> s0.abortCount > 0]}]
     IN  Commit(IF cb = "initTimeout" THEN [s1 EXCEPT !.initCallbacks = Append(@, "timeout")]
                ELSE IF cb = "initError" THEN [s1 EXCEPT !.initCallbacks = Append(@, "error")]
                ELSE s1)

\* the completion callbacks without the close() after a non-Good OPN response
RunImmediate_NoClose ==
  /\ immediates # << >>
  /\ LET c == Head(immediates)
         s0 == [cur EXCEPT !.immediates = Tail(@)]
     IN  IF c.k = "faultSent"
         THEN Commit(close(s0, c.cb))
         ELSE Commit(IF c.cb = "init" THEN [s0 EXCEPT !.initCallbacks = Append(@, "ok")] ELSE s0)

\* the completion callbacks handing init an error after a non-Good OPN response
RunImmediate_ErrorOnNonGood ==
  /\ immediates # << >>
  /\ LET c == Head(immediates)
         s0 == [cur EXCEPT !.immediates = Tail(@)]
     IN  IF c.k = "faultSent"
         THEN Commit(close(s0, c.cb))
         ELSE LET s1 == IF c.nonGood THEN close(s0, "none") ELSE s0
              IN  Commit(IF c.cb = "init"
                         THEN [s1 EXCEPT !.initCallbacks =
                                           Append(@, IF c.nonGood THEN "error" ELSE "ok")]
                         ELSE s1)

\* a completion callback of send_response, deferred by setImmediate
RunImmediate ==
  /\ immediates # << >>
  /\ LET c == Head(immediates)
         s0 == [cur EXCEPT !.immediates = Tail(@)]
     IN  IF c.k = "faultSent"
         THEN Commit(close(s0, c.cb))
         ELSE LET s1 == IF c.nonGood THEN close(s0, "none") ELSE s0
              IN  Commit(IF c.cb = "init" THEN [s1 EXCEPT !.initCallbacks = Append(@, "ok")] ELSE s1)

\* callback of extractPublicKeyFromCertificate in _process_certificates:
\* the key is kept unless the extraction failed, the request is handled anyway
OnCertificateProcessed(errors) ==
  /\ certPending # << >>
  /\ \E err \in errors :
       LET message == Head(certPending)
           key == message.senderCertificate
           s1 == IF err THEN [cur EXCEPT !.certPending = Tail(@)]
                 ELSE [cur EXCEPT !.certPending = Tail(@),
                                  !.receiverPublicKey = key,
                                  !.receiverPublicKeyLength = rsa_length(key)]
       IN  Commit(_handle_OpenSecureChannelRequest(s1, message, HeaderOf(message), "init"))

\* the extraction succeeds on the certificates of LifecycleMessages
CertificateProcessed == OnCertificateProcessed({FALSE})

\* first "message" of the message builder, drawn from the set messages
OnFirstMessage(messages) ==
  /\ listener = "initial"
  /\ CanReceive
  /\ \E message \in messages :
       \E has_endpoint \in EndpointAnswers(message.securityMode) :
         Commit(_on_initial_open_secure_channel_request(cur, message, has_endpoint))

\* later "message": a request to renew the token
OnRenewMessage(messages) ==
  /\ listener = "common"
  /\ CanReceive
  /\ lastTokenId + Len(certPending) < MaxTokens
  /\ \E message \in RenewMessages \cap messages : Commit(_on_common_message(cur, message))

\* later "message": a service request
OnRequestMessage(messages) ==
  /\ listener = "common"
  /\ CanReceive
  /\ Len(messageEvents) < MaxRequests
  /\ \E message \in {m \in messages : m.schema = "Other" /\ m.tokenId \in BuilderTokens(cur)} :
       Commit(_on_common_message(cur, message))

\* the upper layer answers a surfaced request; its response object holds some handle
SendResponse(handles, counts) ==
  \E message \in pendingRequests : \E handle \in handles : \E chunks \in counts :
    Commit(send_response([cur EXCEPT !.pendingRequests = @ \ {message}], "MSG",
                         [kind |-> "Response", serviceResult |-> "Good",
                          requestHandle |-> handle, chunks |-> chunks],
                         message, NoCallback))

FirstMessage == OnFirstMessage(LifecycleMessages)

RenewMessage == OnRenewMessage(LifecycleMessages)

RequestMessage == OnRequestMessage(LifecycleMessages)

\* later "message": a CloseSecureChannelRequest
CloseMessage ==
  /\ listener = "common"
  /\ CanReceive
  /\ closeCalls < MaxCloseCalls
  /\ \E message \in {m \in OtherMessages({securityToken.tokenId}) :
                        m.schema = "CloseSecureChannelRequest" /\ m.requestHandle = 1} :
       Commit(_on_common_message([cur EXCEPT !.closeCalls = @ + 1], message))

\* messageBuilder "error" listener
MessageBuilderError ==
  /\ CanReceive
  /\ closeCalls < MaxCloseCalls
  /\ Commit(close([cur EXCEPT !.closeCalls = @ + 1], "none"))

\* the endpoint closes the channel
ExternalClose ==
  /\ transport \in {"ready", "disconnecting", "closed"}
  /\ closeCalls < MaxCloseCalls
  /\ Commit(close([cur EXCEPT !.closeCalls = @ + 1], "external"))

UpperSendResponse == SendResponse({0}, ChunkCounts)

\* the upper layer rejects a surfaced request
UpperSendErrorAndAbort ==
  \E message \in pendingRequests :
    Commit(send_error_and_abort([cur EXCEPT !.pendingRequests = @ \ {message}],
                                "BadServiceUnsupported", message, "upper"))

Next ==
  \/ init
  \/ TransportInitDone
  \/ SocketClosed
  \/ OpenSecureChannelTimeout
  \/ SecurityTokenWatchdog
  \/ DisconnectDone
  \/ RunImmediate
  \/ CertificateProcessed
  \/ FirstMessage
  \/ RenewMessage
  \/ CloseMessage
  \/ RequestMessage
  \/ MessageBuilderError
  \/ ExternalClose
  \/ UpperSendResponse
  \/ UpperSendErrorAndAbort

Spec == Init /\ [][Next]_vars

(***************************************************************************)
(* The handshake specification: the same handlers on every message of      *)
(* OpnMessages and every service request, with a live socket.              *)
(***************************************************************************)
\* first messages: the open requests, and messages that are none
HandshakeFirstMessages == HandshakeMessages \cup OtherMessages({0})

FirstHandshakeMessage == OnFirstMessage(HandshakeFirstMessages)

RenewHandshakeMessage == OnRenewMessage(HandshakeMessages)

\* requests the upper layer can answer, with any request handle
HandshakeRequests ==
  {m \in OtherMessages({1, 2}) : m.msgType = "MSG" /\ m.requestId \in RequestIds}

RequestHandshakeMessage == OnRequestMessage(HandshakeRequests)

UpperHandshakeResponse == SendResponse(RequestHandles, {1})

HandshakeNext ==
  \/ init
  \/ TransportInitDone
  \/ FirstHandshakeMessage
  \/ CertificateProcessed
  \/ RenewHandshakeMessage
  \/ RequestHandshakeMessage
  \/ UpperHandshakeResponse
  \/ UpperSendErrorAndAbort
  \/ RunImmediate
  \/ DisconnectDone

HandshakeSpec == Init /\ [][HandshakeNext]_vars

FairHandshakeSpec ==
  /\ HandshakeSpec
  /\ WF_vars(RunImmediate)
  /\ WF_vars(DisconnectDone)
  /\ WF_vars(CertificateProcessed)

(***************************************************************************)
(* The security specification: the same handlers on every combination of   *)
(* policy, mode, nonce, thumbprint and certificate, on a channel built      *)
(* without options.                                                        *)
(***************************************************************************)
SecurityInit == Init /\ defaultSecureTokenLifetime = DefaultSecureTokenLifetime

FirstSecurityMessage == OnFirstMessage(SecurityMessages)

\* service requests in chunks of every message type
SecurityRequests ==
  {m \in OtherMessages({1, 2}) : m.requestId \in RequestIds /\ m.requestHandle = 1}

RequestSecurityMessage == OnRequestMessage(SecurityRequests)

RenewSecurityMessage == OnRenewMessage(SecurityMessages)

SecurityNext ==
  \/ init
  \/ TransportInitDone
  \/ FirstSecurityMessage
  \/ CertificateProcessed
  \/ RenewSecurityMessage
  \/ RequestSecurityMessage
  \/ UpperSendResponse
  \/ RunImmediate
  \/ DisconnectDone

SecuritySpec == SecurityInit /\ [][SecurityNext]_vars

FairSecuritySpec ==
  /\ SecuritySpec
  /\ WF_vars(RunImmediate)
  /\ WF_vars(DisconnectDone)
  /\ WF_vars(CertificateProcessed)

(***************************************************************************)
(* The process specification: the channel beside the other channels the    *)
(* server constructs in the same process, which draw their ids from the    *)
(* same counter.                                                           *)
(***************************************************************************)
\* new ServerSecureChannelLayer(options) for another connection
constructor ==
  /\ Len(secureChannelIds) < MaxChannels
  /\ \E next \in {getNextChannelId(last_channel_id)} :
       Commit([cur EXCEPT !.last_channel_id = next.last_channel_id,
                          !.secureChannelIds = Append(@, next.id)])

ProcessNext ==
  \/ constructor
  \/ SecurityNext

ProcessSpec == SecurityInit /\ [][ProcessNext]_vars

(***************************************************************************)
(* The certificate specification: _check_certificate_validity applied to   *)
(* no certificate and to certificates of every validity window.            *)
(***************************************************************************)
CheckCertificateValidity ==
  \E certificate \in {NoCertificate} \cup
                      [present : {TRUE}, zeroLength : {FALSE},
                       notBefore : CertificateTimes, notAfter : CertificateTimes] :
    Commit([cur EXCEPT !.validity = [certificate |-> certificate,
                                     status |-> _check_certificate_validity(certificate)]])

CertificateNext == CheckCertificateValidity

CertificateSpec == Init /\ [][CertificateNext]_vars

(***************************************************************************)
(* The renewal specification: on a channel opened by any first request,    *)
(* renewals asking for any security mode and carrying any certificate.     *)
(* A renewal that asks to sign is answered by a channel with a parent,     *)
(* which supplies the certificate chain.                                   *)
(***************************************************************************)
FirstAnyMessage == OnFirstMessage(AnyOpnMessages)

\* decoded under the policy the channel was opened with
AnyRenewMessages ==
  {m \in AnyOpnMessages : /\ m.securityPolicyUri = clientSecurityHeader.securityPolicyUri
                          /\ m.thumbprint = clientSecurityHeader.thumbprint}

\* later "message": an OpenSecureChannelRequest of any mode, nonce and certificate
RenewAnyMessage ==
  /\ listener = "common"
  /\ CanReceive
  /\ lastTokenId + Len(certPending) < MaxTokens
  /\ \E message \in AnyRenewMessages : Commit(_on_common_message(cur, message))

\* the extraction of the public key succeeds or fails
CertificateExtracted == OnCertificateProcessed(BOOLEAN)

RenewalNext ==
  \/ init
  \/ TransportInitDone
  \/ FirstAnyMessage
  \/ CertificateExtracted
  \/ RenewAnyMessage
  \/ RunImmediate
  \/ DisconnectDone

RenewalSpec == SecurityInit /\ [][RenewalNext]_vars

(***************************************************************************)
(* The init specification: transport initialisation, the initial-OPN       *)
(* timer and the first message in every order, the first message also      *)
(* between the transport.disconnect() of the timeout and its completion.   *)
(***************************************************************************)
\* first messages whose sequence header holds a requestId above 0
InitMessages == {m \in LifecycleMessages : m.requestId \in RequestIds}

FirstInitMessage == OnFirstMessage(InitMessages)

\* a chunk already received completes a message while the transport is
\* disconnecting: the once("message") listener of line 732 is still installed
LateFirstMessage ==
  /\ listener = "initial"
  /\ transport = "disconnecting" /\ ~socketClosed
  /\ \E message \in InitMessages :
       \E has_endpoint \in EndpointAnswers(message.securityMode) :
         Commit(_on_initial_open_secure_channel_request(cur, message, has_endpoint))

InitNext ==
  \/ init
  \/ TransportInitDone
  \/ OpenSecureChannelTimeout
  \/ FirstInitMessage
  \/ LateFirstMessage
  \/ CertificateProcessed
  \/ RunImmediate
  \/ DisconnectDone

InitSpec == Init /\ [][InitNext]_vars

\* the event loop runs every queued callback, and the transport completes every disconnect
FairSpec ==
  /\ Spec
  /\ WF_vars(RunImmediate)
  /\ WF_vars(DisconnectDone)
  /\ WF_vars(CertificateProcessed)

TypeOK ==
  /\ transport \in {"undefined", "initializing", "failed", "ready", "disconnecting", "closed"}
  /\ timeoutId \in {"zero", "null", "timer"}
  /\ watchdogs \subseteq 1 .. MaxTokens
  /\ securityTokenTimeout \in 0 .. MaxTokens
  /\ lastTokenId \in 0 .. MaxTokens
  /\ securityMode \in {"INVALID"} \cup SecurityModes
  /\ listener \in {"none", "initial", "common"}
  /\ Len(certPending) <= 1

(***************************************************************************)
(* Properties.                                                             *)
(***************************************************************************)
InitTimedOut == \E i \in 1 .. Len(initCallbacks) : initCallbacks[i] = "timeout"

\* C1: the `abort` event is emitted at most once per channel, whatever the
\* order of socket_closed, close() calls, builder errors, CloseSecureChannel
\* requests and the initial-OPN timeout.
C1_AbortEmittedAtMostOnce == abortCount <= 1

\* _abort ran for the socket_closed event and again for a completed close()
C1_Witness == abortCount = 1 /\ socketClosed /\ transport = "closed"

\* C2: the tokens installed on a channel carry the ids 1, 2, 3, ...: each one
\* is the previous lastTokenId + 1, so no id is reused.
C2_TokenIdsIncreaseByOne ==
  /\ \A i \in 1 .. Len(installed) : installed[i] = i
  /\ lastTokenId = Len(installed)
  /\ securityToken.tokenId = lastTokenId

\* a renewal has installed the second token
C2_Witness == Len(installed) = 2 /\ securityToken.tokenId = 2

\* C3: once a response to an OpenSecureChannelRequest has been sent with a
\* serviceResult other than Good, the channel eventually aborts.
C3_NonGoodOpnLeadsToAbort == nonGoodOpnSent ~> (abort_has_been_called /\ transport = "closed")

\* a degraded OpenSecureChannelResponse was sent and the channel has aborted
C3_Witness ==
  /\ nonGoodOpnSent
  /\ lastResponse.kind = "OpenSecureChannelResponse"
  /\ lastResponse.serviceResult # "Good"
  /\ abortCount = 1

\* C4: every response handed to the chunker carries the requestHandle of the
\* request it answers.
C4_RequestHandleCopied ==
  lastResponse # NoResponse => lastResponse.requestHandle = lastResponse.request.requestHandle

\* the upper layer's response, and an OPN response, left with handle 1
C4_Witness ==
  /\ lastResponse.kind \in {"Response", "OpenSecureChannelResponse"}
  /\ lastResponse.request.requestHandle = 1
  /\ lastResponse.requestHandle = 1

\* C5: every installed token has 0 < revisedLifeTime <= defaultSecureTokenLifetime.
C5_RevisedLifetimeInRange ==
  securityToken.tokenId # 0 =>
    /\ 0 < securityToken.revisedLifeTime
    /\ securityToken.revisedLifeTime <= defaultSecureTokenLifetime

\* a token was installed for a request above the default
C5_Witness ==
  /\ securityToken.tokenId # 0
  /\ requestedLifetime > defaultSecureTokenLifetime
  /\ securityToken.revisedLifeTime = defaultSecureTokenLifetime

\* C6: the revised lifetime is the default for a requested lifetime of 0 and
\* the smaller of the default and the requested lifetime otherwise.
C6_RevisedLifetimeFromRequested ==
  installed # << >> =>
    /\ requestedLifetime = 0 => revisedLifeTime = defaultSecureTokenLifetime
    /\ (requestedLifetime # 0 /\ requestedLifetime <= defaultSecureTokenLifetime)
          => revisedLifeTime = requestedLifetime
    /\ requestedLifetime > defaultSecureTokenLifetime => revisedLifeTime = defaultSecureTokenLifetime

\* a token was installed for a requested lifetime of 0
C6_Witness ==
  /\ installed # << >>
  /\ requestedLifetime = 0
  /\ securityToken.revisedLifeTime = defaultSecureTokenLifetime
  /\ defaultSecureTokenLifetime = DefaultSecureTokenLifetime

\* C7: no `message` event is emitted for a request secured with a token
\* whose watchdog has fired.
C7_ExpiredTokenRefused ==
  \A i \in 1 .. Len(messageEvents) : ~messageEvents[i].watchdogFired

\* C8: at most one token watchdog is pending, it is the current token's, the
\* abort leaves none pending, and only the current token's watchdog fires.
C8_OneWatchdogPending ==
  /\ [](/\ Cardinality(watchdogs) <= 1
        /\ watchdogs \subseteq {securityToken.tokenId}
        /\ \A f \in firedWatchdogs : f.tokenId = f.current)
  /\ [][(~abort_has_been_called /\ abort_has_been_called') => watchdogs' = {}]_vars

\* the second token's watchdog is pending, the first one's is not
C8_Witness == Len(installed) = 2 /\ watchdogs = {2} /\ firedWatchdogs = {}

\* C9: when the initial-OPN timer fires, the transport is disconnected and
\* the init callback is then invoked with the timeout error, the channel
\* being aborted.
C9_TimeoutCompletesInit ==
  /\ [](InitTimedOut => (timeoutFired /\ transport = "closed" /\ abort_has_been_called))
  /\ (timeoutFired ~> InitTimedOut)

\* the timer fired before any message and init completed with the timeout
C9_Witness == InitTimedOut /\ ~firstMessageSeen /\ abortCount = 1

\* C10: once the first message is decoded the initial-OPN timer is not
\* pending any more, so its callback never runs after a first message.
C10_TimerCancelledByFirstMessage ==
  firstMessageSeen => (~openTimer /\ timeoutId = "null" /\ ~timeoutAfterMessage)

\* the first message was rejected and the timer has not fired
C10_Witness ==
  /\ firstMessageSeen
  /\ ~timeoutFired
  /\ lastResponse.kind = "ServiceFault"
  /\ lastResponse.serviceResult = "BadCommunicationError"

\* C11: a transport failure during init completes the init callback with that
\* error, and a socket close while the channel awaits the initial OPN emits
\* no `abort` event.
C11_NoAbortWhileAwaitingOpn ==
  /\ [](transport = "failed" => initCallbacks = << "transportError" >>)
  /\ [][(listener = "initial" /\ ~socketClosed /\ socketClosed') => abortCount' = abortCount]_vars

\* C12: the `abort` event is emitted only after the callback of a close() in
\* flight has been invoked: no close callback runs on a channel that has
\* already emitted `abort`.
C12_AbortAfterCloseCallback == \A c \in closeCallbacks : ~c.abortEmitted

\* C13: once an OpenSecureChannelRequest has been handled (the first one or
\* a renewal, whatever mode and recognised policy it combines), securityMode
\* is None exactly when derivedKeys is absent, exactly when the policy is None.
C13_ModeKeysPolicyAgree ==
  installed # << >> =>
    /\ (securityMode = "NONE") = ~derivedKeys.computed
    /\ ~derivedKeys.computed = (clientSecurityHeader.securityPolicyUri = "None")

\* C14: while securityMode is None no response, OPN or MSG, is sent with
\* signing or encryption options, and serverNonce is absent.
C14_NoSecurityInModeNone ==
  securityMode = "NONE" => (lastResponse.security = "none" /\ serverNonce = 0)

\* C15: when the policy is not None and the client nonce is not as long as
\* the server nonce, the OPN response carries BadSecurityModeRejected and no
\* keys are derived from the two nonces (the channel then closes, see C3).
C15_NonceMismatchRejected ==
  (/\ installed # << >>
   /\ lastResponse.msgType = "OPN"
   /\ clientSecurityHeader.securityPolicyUri # "None"
   /\ clientNonce # serverNonce)
  => /\ lastResponse.serviceResult = "BadSecurityModeRejected"
     /\ ~(derivedKeys.computed /\ derivedKeys.clientNonce # derivedKeys.serverNonce)

\* C16: an OpenSecureChannelRequest whose header has no
\* receiverCertificateThumbprint is accepted in mode None and is answered
\* with BadCertificateInvalid in mode Sign or SignAndEncrypt.
C16_MissingThumbprint ==
  (/\ installed # << >>
   /\ lastResponse.msgType = "OPN"
   /\ lastResponse.kind = "OpenSecureChannelResponse"
   /\ clientSecurityHeader.thumbprint = "absent")
  => IF securityMode = "NONE"
     THEN lastResponse.serviceResult # "BadCertificateInvalid"
     ELSE lastResponse.serviceResult = "BadCertificateInvalid"

\* the OPN response sent last answers a request handled in a signing mode,
\* with another thumbprint than the server certificate's and no client
\* certificate outside its validity window
ThumbprintMismatchAnswered ==
  /\ lastResponse.msgType = "OPN"
  /\ securityMode # "NONE"
  /\ clientSecurityHeader.thumbprint = "mismatch"
  /\ (clientCertificate.present => _check_certificate_validity(clientCertificate) = "Good")

\* C17: in a signing mode, a request whose receiverCertificateThumbprint is
\* not the server certificate's (its client certificate being time-valid) is
\* answered with an OpenSecureChannelResponse, not a ServiceFault, carrying
\* BadCertificateInvalid, and the channel then closes.
C17_ThumbprintMismatchDegradedResponse ==
  /\ [](ThumbprintMismatchAnswered =>
          /\ lastResponse.kind = "OpenSecureChannelResponse"
          /\ lastResponse.serviceResult = "BadCertificateInvalid")
  /\ (ThumbprintMismatchAnswered ~> (transport = "closed" /\ abort_has_been_called))

\* the degraded response went out for a time-valid certificate and the channel closed
C17_Witness ==
  /\ ThumbprintMismatchAnswered
  /\ clientCertificate.present
  /\ lastResponse.kind = "OpenSecureChannelResponse"
  /\ lastResponse.serviceResult = "BadCertificateInvalid"
  /\ transport = "closed"

\* the OPN response sent last answers a request handled in a signing mode,
\* with another thumbprint than the server certificate's and a client
\* certificate outside its validity window
BothChecksFailed ==
  /\ lastResponse.msgType = "OPN"
  /\ securityMode # "NONE"
  /\ clientSecurityHeader.thumbprint = "mismatch"
  /\ clientCertificate.present
  /\ (clientCertificate.notBefore > Now \/ clientCertificate.notAfter <= Now)

\* C18: when the thumbprint check and the validity window of the client
\* certificate both fail for a request, the message sent is a ServiceFault
\* carrying BadCertificateTimeInvalid, and the channel then closes.
C18_ValidityFailureTakesPrecedence ==
  /\ [](BothChecksFailed =>
          /\ lastResponse.kind = "ServiceFault"
          /\ lastResponse.serviceResult = "BadCertificateTimeInvalid")
  /\ (BothChecksFailed ~> (transport = "closed" /\ abort_has_been_called))

\* the fault went out in place of the degraded response and the channel closed
C18_Witness ==
  /\ BothChecksFailed
  /\ lastResponse.kind = "ServiceFault"
  /\ lastResponse.serviceResult = "BadCertificateTimeInvalid"
  /\ transport = "closed"

\* the first message, of a requestId above 0, was rejected: no listener for
\* later messages was installed
FirstMessageRejected ==
  /\ firstMessageSeen
  /\ listener = "none"
  /\ "_on_initial_open_secure_channel_request" \notin thrown

InitFailed == \E i \in 1 .. Len(initCallbacks) : initCallbacks[i] = "error"

\* the claim's three reasons to reject the first message: it is no
\* OpenSecureChannelRequest, its policy URI is not one of the three known
\* ones, or the endpoint registry has no endpoint for its (mode, policy)
C19_Rejects(message, has_endpoint) ==
  \/ message.schema # "OpenSecureChannelRequest"
  \/ message.securityPolicyUri \notin {"None", "Basic128Rsa15", "Basic256"}
  \/ ~has_endpoint

\* a ServiceFault answered the first message and no later message is listened for
FirstMessageFaulted ==
  /\ firstMessageSeen
  /\ listener = "none"
  /\ lastResponse.kind = "ServiceFault"

\* C19: whatever first message the message builder decodes and whatever the
\* endpoint registry answers, a message that is no OpenSecureChannelRequest
\* is answered with a ServiceFault BadCommunicationError; one whose policy
\* URI is not None, Basic128Rsa15 or Basic256, or for whose (mode, policy)
\* there is no endpoint, with a ServiceFault BadSecurityPolicyRejected.  No
\* token is issued, the channel is closed after the fault is sent, and the
\* init callback then receives an error.
C19_FirstMessageRejected ==
  /\ [][(listener = "initial" /\ ~firstMessageSeen /\ firstMessageSeen') =>
          \A message \in LifecycleMessages :
            \A has_endpoint \in EndpointAnswers(message.securityMode) :
              (/\ cur' = _on_initial_open_secure_channel_request(cur, message, has_endpoint)
               /\ C19_Rejects(message, has_endpoint))
              => /\ lastResponse'.kind = "ServiceFault"
                 /\ lastResponse'.serviceResult =
                      IF message.schema # "OpenSecureChannelRequest"
                      THEN "BadCommunicationError" ELSE "BadSecurityPolicyRejected"
                 /\ installed' = << >> /\ securityToken'.tokenId = 0
                 /\ listener' = "none"]_vars
  /\ [](FirstMessageFaulted => installed = << >>)
  /\ [](InitFailed => (FirstMessageFaulted /\ transport = "closed" /\ abort_has_been_called))
  /\ (FirstMessageFaulted ~> InitFailed)

\* C20: every `message` event carries a requestId greater than 0, whatever
\* requestId the sequence header of the decoded message holds.
C20_MessageRequestIdPositive ==
  \A i \in 1 .. Len(messageEvents) : messageEvents[i].requestId > 0

\* C21: for the response handed to the chunker `transaction_done` is
\* emitted once, after every chunk of that response has been written to the
\* transport: never before the first chunk nor between two chunks.
C21_TransactionDoneAfterLastChunk ==
  lastResponse # NoResponse =>
    /\ Len(wire) = lastResponse.chunks + 1
    /\ \A i \in 1 .. lastResponse.chunks : wire[i] = [k |-> "write", chunk |-> i]
    /\ wire[Len(wire)].k = "transaction_done"

\* a response of two chunks went out: write, write, transaction_done
C21_Witness ==
  /\ lastResponse.chunks = 2
  /\ wire = << [k |-> "write", chunk |-> 1], [k |-> "write", chunk |-> 2],
               [k |-> "transaction_done", chunk |-> 0] >>

\* C22: on an open channel no `message` event is emitted for a message of
\* msgType OPN or CLO, nor for an OpenSecureChannelRequest or a
\* CloseSecureChannelRequest.
C22_MessageEventOnlyForServiceRequests ==
  \A i \in 1 .. Len(messageEvents) :
    /\ messageEvents[i].msgType \notin {"OPN", "CLO"}
    /\ messageEvents[i].schema \notin {"OpenSecureChannelRequest", "CloseSecureChannelRequest"}

\* C23: any two channels constructed in the process have different
\* secureChannelIds: the ids come from a counter that only increases, the
\* first channel receiving 1.
C23_ChannelIdsUnique ==
  /\ \A i, j \in 1 .. Len(secureChannelIds) : i < j => secureChannelIds[i] < secureChannelIds[j]
  /\ secureChannelIds[1] = 1
  /\ last_channel_id = secureChannelIds[Len(secureChannelIds)]

\* three channels have been constructed while the first one was being opened
C23_Witness ==
  /\ Len(secureChannelIds) >= 3
  /\ installed # << >>

\* C24: once the channel has aborted, serverNonce and derivedKeys hold no
\* key material any more.
C24_KeyMaterialClearedOnAbort ==
  abort_has_been_called => (serverNonce = 0 /\ ~derivedKeys.computed)

\* the security tokens the channel holds: _prepare_security_token deletes
\* self.securityToken and _add_new_security_token assigns the new one
HeldTokens == IF securityToken.tokenId = 0 THEN {} ELSE {securityToken.tokenId}

\* a renewal has replaced a token whose lifetime has not elapsed, and no
\* message secured with the new token has arrived since
PreviousTokenInGrace ==
  /\ Len(installed) >= 2
  /\ ~\E f \in firedWatchdogs : f.tokenId = installed[Len(installed) - 1]
  /\ ~\E i \in 1 .. Len(messageEvents) : messageEvents[i].tokenId = installed[Len(installed)]

\* C25: after a renewal the channel keeps the previous token until its
\* lifetime elapses or a message secured with the new token arrives, and it
\* never keeps more than two tokens.
C25_PreviousTokenKept ==
  /\ Cardinality(HeldTokens) <= 2
  /\ PreviousTokenInGrace => installed[Len(installed) - 1] \in HeldTokens

\* C26: the validity check returns BadSecurityChecksFailed for a missing
\* certificate, BadCertificateTimeInvalid when now < notBefore or
\* now >= notAfter, and Good for every other certificate.
C26_CertificateValidity ==
  validity # NoValidity =>
    /\ ~validity.certificate.present => validity.status = "BadSecurityChecksFailed"
    /\ (/\ validity.certificate.present
        /\ (Now < validity.certificate.notBefore \/ Now >= validity.certificate.notAfter))
         => validity.status = "BadCertificateTimeInvalid"
    /\ (/\ validity.certificate.present
        /\ validity.certificate.notBefore <= Now /\ Now < validity.certificate.notAfter)
         => validity.status = "Good"

\* the check was applied to a certificate that expires at this very instant
C26_Witness ==
  /\ validity.certificate.present
  /\ validity.certificate.notBefore < Now
  /\ validity.certificate.notAfter = Now
  /\ validity.status = "BadCertificateTimeInvalid"

\* init has nothing left to wait for: no timer, no queued callback, no
\* disconnect in flight, no message that can still arrive
InitSettled ==
  /\ transport \in {"failed", "ready", "closed"}
  /\ ~openTimer
  /\ immediates = << >> /\ disconnects = << >> /\ certPending = << >>
  /\ listener # "initial"

\* C27: the init callback is invoked exactly once, in whatever order the
\* transport initialisation fails, the first message is decoded and the
\* initial-OPN timer fires, a first message decoded between the timeout and
\* the completion of the disconnect included.
C27_InitCallbackExactlyOnce ==
  /\ Len(initCallbacks) <= 1
  /\ InitSettled => Len(initCallbacks) = 1

\* C28: once `abort` has been emitted the channel installs no security
\* token, arms no token watchdog and no initial-OPN timer, and emits no
\* `message` event, whatever is delivered to it afterwards.
C28_AbortedIsTerminal ==
  [][abortCount > 0 =>
       /\ installed' = installed
       /\ watchdogs' \subseteq watchdogs
       /\ openTimer' => openTimer
       /\ messageEvents' = messageEvents]_vars

\* the step handles an OpenSecureChannelRequest emitted by the message
\* builder on a channel that already has a token (the step is not the
\* extraction callback of the first request)
RenewalHandled ==
  /\ listener = "common"
  /\ installed # << >>
  /\ certPending' = certPending
  /\ Len(installed') = Len(installed) + 1

\* C29: handling a renewal leaves securityMode, receiverPublicKey and
\* receiverPublicKeyLength as the first OpenSecureChannelRequest set them,
\* whatever mode and certificate the renewal carries; the header of the
\* first request and the listener stay too.
C29_RenewalKeepsModeAndKey ==
  [][RenewalHandled =>
       /\ securityMode' = securityMode
       /\ receiverPublicKey' = receiverPublicKey
       /\ receiverPublicKeyLength' = receiverPublicKeyLength
       /\ clientSecurityHeader' = clientSecurityHeader
       /\ listener' = listener]_vars

\* a channel opened in mode Sign with the key of the client certificate has
\* answered a renewal that asks for mode None
C29_Witness ==
  /\ Len(installed) = 2
  /\ lastResponse.msgType = "OPN"
  /\ lastResponse.request.securityMode = "NONE"
  /\ securityMode = "SIGN"
  /\ receiverPublicKey.present
  /\ receiverPublicKeyLength = rsa_length(receiverPublicKey)

\* the response to the first OpenSecureChannelRequest has been handed to
\* the transport and its completion callback is queued
InitResponseSent == \E i \in 1 .. Len(immediates) : immediates[i].cb = "init"

InitSucceeded == \E i \in 1 .. Len(initCallbacks) : initCallbacks[i] = "ok"

\* C30: once the response to a first OpenSecureChannelRequest that passed
\* the request-type, policy and endpoint checks has been sent, the init
\* callback is invoked with no error, also when the serviceResult is not
\* Good and the channel is closing; init receives an error only for a
\* rejected first message, a failed transport initialisation or the timeout.
C30_InitOkAfterOpnResponse ==
  /\ [](\A i \in 1 .. Len(initCallbacks) :
          /\ initCallbacks[i] = "ok" => (installed # << >> /\ listener = "common")
          /\ initCallbacks[i] = "error" => (FirstMessageRejected /\ installed = << >>)
          /\ initCallbacks[i] = "transportError" => transport = "failed"
          /\ initCallbacks[i] = "timeout" => timeoutFired)
  /\ (InitResponseSent ~> InitSucceeded)

\* init succeeded although the first request was answered with a fault for
\* an expired certificate and the channel is closing
C30_Witness ==
  /\ initCallbacks = << "ok" >>
  /\ nonGoodOpnSent
  /\ lastResponse.msgType = "OPN"
  /\ lastResponse.serviceResult = "BadCertificateTimeInvalid"
  /\ transport \in {"disconnecting", "closed"}

====
